---- MODULE Spec2Model ----
(***************************************************************************)
(* Model of the mock X-GEN TI REST API (app/main.py): the shared paging    *)
(* algorithm _page, the list-indicators handler, the snapshot directory    *)
(* with the delete-old-snapshots sweep, the manual generation handler and  *)
(* the start-up / periodic regeneration task.                              *)
(*                                                                         *)
(* Python values are modelled as follows.                                  *)
(*   - Optional[T]: None is the empty sequence, a present value x is <<x>>.*)
(*   - str: a sequence of one-character strings, so that startswith,       *)
(*     endswith and lower are computed on the characters.                  *)
(*   - list: a sequence.                                                   *)
(*   - time: whole hours since an arbitrary origin.                        *)
(* The data directory is flat (os.walk yields one directory).              *)
(***************************************************************************)
EXTENDS Integers, Sequences, FiniteSets, TLC

VARIABLES
    now,        \* wall clock, hours
    files,      \* DATA_DIR: file name -> [mtime, objs]
    nextId,     \* sequence number embedded in the next snapshot's name
    genOnStart, \* GENERATE_ON_START
    every,      \* GENERATE_EVERY_SECONDS
    schedPc,    \* position of _start_generator / _loop
    schedLog,   \* last line printed by the loop's except clause ("" if none)
    sweep,      \* per worker thread: the delete_old_ti_files call it runs
    genResp,    \* outcome of the last generate_ti_indicators request
    pg,         \* a client paginating over one of the list endpoints
    call        \* a direct call of _page: its arguments and its result

vars == <<now, files, nextId, genOnStart, every, schedPc, schedLog, sweep, genResp, pg, call>>

(***************************************************************************)
(* Bounds of the model.                                                    *)
(***************************************************************************)
MaxLen == 3

MaxGen == 2

MaxTime == 13

\* Generations that may overlap the delete-old-snapshots sweeps.
MaxReapGen == 1

(***************************************************************************)
(* Python built-ins.                                                       *)
(***************************************************************************)
None == <<>>

Some(x) == <<x>>

Min(a, b) == IF a < b THEN a ELSE b

Max(a, b) == IF a > b THEN a ELSE b

\* items[start:end] for integers start, end of either sign: a negative index
\* counts from the end of the list, and both are clamped to 0..len(items).
PySlice(items, start, end) ==
    LET n  == Len(items)
        lo == IF start < 0 THEN Max(start + n, 0) ELSE Min(start, n)
        hi == IF end < 0 THEN Max(end + n, 0) ELSE Min(end, n)
    IN  IF lo >= hi THEN <<>> ELSE SubSeq(items, lo + 1, hi)

startswith(s, p) == Len(s) >= Len(p) /\ SubSeq(s, 1, Len(p)) = p

endswith(s, p) == Len(s) >= Len(p) /\ SubSeq(s, Len(s) - Len(p) + 1, Len(s)) = p

LowerChar(c) ==
    CASE c = "J" -> "j"
      [] c = "S" -> "s"
      [] c = "O" -> "o"
      [] c = "N" -> "n"
      [] c = "I" -> "i"
      [] c = "T" -> "t"
      [] c = "X" -> "x"
      [] OTHER -> c

lower(s) == [i \in 1..Len(s) |-> LowerChar(s[i])]

DigitChar(d) ==
    CASE d = 0 -> "0" [] d = 1 -> "1" [] d = 2 -> "2" [] d = 3 -> "3" [] d = 4 -> "4"
      [] d = 5 -> "5" [] d = 6 -> "6" [] d = 7 -> "7" [] d = 8 -> "8" [] d = 9 -> "9"

DigitChars == {DigitChar(d) : d \in 0..9}

DigitValue(c) == CHOOSE d \in 0..9 : DigitChar(d) = c

RECURSIVE Digits(_)
\* str(n) for n >= 0
Digits(n) == IF n < 10 THEN <<DigitChar(n)>> ELSE Digits(n \div 10) \o <<DigitChar(n % 10)>>

\* str(n)
str(n) == IF n < 0 THEN <<"-">> \o Digits(-n) ELSE Digits(n)

RECURSIVE ParseDigits(_)
ParseDigits(s) ==
    IF s = <<>> THEN 0
    ELSE 10 * ParseDigits(SubSeq(s, 1, Len(s) - 1)) + DigitValue(s[Len(s)])

(***************************************************************************)
(* Cursor codec (app/paging.py).  encode_token(n) is a reversible encoding *)
(* of the decimal text of n; decode_token yields 0 for an absent, empty or *)
(* malformed token.                                                        *)
(***************************************************************************)
encode_token(offset) == str(offset)

decode_token(token) ==
    IF token = None THEN 0
    ELSE LET t == token[1]
         IN  IF t # <<>> /\ \A i \in 1..Len(t) : t[i] \in DigitChars
             THEN ParseDigits(t)
             ELSE 0

(***************************************************************************)
(* Configuration read from the environment when the module is imported     *)
(* (main.py 24).  getenv yields the variable's text, or the default when   *)
(* the variable is not set; int yields the integer that a decimal text     *)
(* with an optional sign denotes and raises ValueError (None here) for any *)
(* other text, which ends the import.                                      *)
(***************************************************************************)
getenv(value, default) == IF value = None THEN default ELSE value[1]

int(s) ==
    LET signed == s # <<>> /\ s[1] \in {"-", "+"}
        ds     == IF signed THEN SubSeq(s, 2, Len(s)) ELSE s
    IN  IF ds # <<>> /\ \A i \in 1..Len(ds) : ds[i] \in DigitChars
        THEN Some(IF signed /\ s[1] = "-" THEN -ParseDigits(ds) ELSE ParseDigits(ds))
        ELSE None

GENERATE_EVERY_SECONDS(value) == int(getenv(value, str(2 * 60 * 60)))

\* The interval when the variable is not set.
DEFAULT_EVERY == GENERATE_EVERY_SECONDS(None)[1]

\* Line 89: asyncio.sleep(10).
BACKOFF_SECONDS == 10

(***************************************************************************)
(* _page (main.py 65-72).                                                  *)
(***************************************************************************)
_pageTokenOfStart(items, offset, page_size) ==
    LET total == Len(items)
        start == Max(offset, 0)
        end   == Min(start + page_size, total)
        more  == end < total
    IN  [slice |-> PySlice(items, start, end), total |-> total, more |-> more,
         next_token |-> IF more THEN Some(encode_token(start)) ELSE None]

_pageMoreInclusive(items, offset, page_size) ==
    LET total == Len(items)
        start == Max(offset, 0)
        end   == Min(start + page_size, total)
        more  == end <= total
    IN  [slice |-> PySlice(items, start, end), total |-> total, more |-> more,
         next_token |-> IF more THEN Some(encode_token(end)) ELSE None]

_pageNoClamp(items, offset, page_size) ==
    LET total == Len(items)
        start == offset
        end   == Min(start + page_size, total)
        more  == end < total
    IN  [slice |-> PySlice(items, start, end), total |-> total, more |-> more,
         next_token |-> IF more THEN Some(encode_token(end)) ELSE None]

_page(items, offset, page_size) ==
    LET total == Len(items)
        start == Max(offset, 0)
        end   == Min(start + page_size, total)
        more  == end < total
    IN  [slice |-> PySlice(items, start, end), total |-> total, more |-> more,
         next_token |-> IF more THEN Some(encode_token(end)) ELSE None]

(***************************************************************************)
(* Configuration read from the environment at import time (main.py 24-27). *)
(* MIN_COUNT and MAX_COUNT are set small here: any pair of integers is a   *)
(* configuration the process accepts.                                      *)
(***************************************************************************)
MIN_COUNT == 1

MAX_COUNT == 1

LOAD_LIMIT == 10000

DEFAULT_H == 6

(***************************************************************************)
(* Snapshot files.  write_payload (app/generator.py) names each snapshot   *)
(* indicators_<sequence>.json; load_indicators and load_objects            *)
(* (app/file_store.py) merge the snapshots oldest first, filter by since   *)
(* and type, and truncate to limit.                                        *)
(***************************************************************************)
Pfx == <<"i", "n", "d", "i", "c", "a", "t", "o", "r", "s", "_">>

JsonExt == <<".", "j", "s", "o", "n">>

SnapshotName(id) == Pfx \o str(id) \o JsonExt

IsSnapshotFile(name) == startswith(name, Pfx) /\ endswith(name, JsonExt)

SnapshotSeq(name) == ParseDigits(SubSeq(name, Len(Pfx) + 1, Len(name) - Len(JsonExt)))

Types == {"indicator", "malware"}

Bundle(id, t, tys) == [i \in 1..Len(tys) |-> [id |-> <<id, i>>, type |-> tys[i], modified |-> t]]

\* The bundles generate_payload can return at time t for snapshot number id:
\* between min_count and max_count objects, each of any supported type.  The
\* set is empty, and the call raises, when min_count > max_count.
generate_payload(id, t, min_count, max_count) ==
    {Bundle(id, t, tys) : tys \in UNION {[1..n -> Types] : n \in min_count..max_count}}

write_payload(dir, id, t, payload) ==
    [n \in DOMAIN dir \cup {SnapshotName(id)} |->
        IF n = SnapshotName(id) THEN [mtime |-> t, objs |-> payload] ELSE dir[n]]

RECURSIVE MergeSnapshots(_, _)
MergeSnapshots(dir, names) ==
    IF names = {} THEN <<>>
    ELSE LET first == CHOOSE n \in names : \A m \in names : SnapshotSeq(n) <= SnapshotSeq(m)
         IN  dir[first].objs \o MergeSnapshots(dir, names \ {first})

RECURSIVE FilterSeq(_, _, _)
FilterSeq(objs, since, types) ==
    IF objs = <<>> THEN <<>>
    ELSE LET o    == Head(objs)
             keep == /\ (since = None \/ o.modified >= since[1])
                     /\ (types = None \/ o.type \in types[1])
         IN  (IF keep THEN <<o>> ELSE <<>>) \o FilterSeq(Tail(objs), since, types)

load_objects(dir, since, limit, types) ==
    LET merged == MergeSnapshots(dir, {n \in DOMAIN dir : IsSnapshotFile(n)})
        kept   == FilterSeq(merged, since, types)
    IN  SubSeq(kept, 1, Min(limit, Len(kept)))

load_indicators(dir, since, limit) == load_objects(dir, since, limit, Some({"indicator"}))

_collect_itemsNewestFirst(dir, since, types) ==
    LET items == load_objects(dir, since, LOAD_LIMIT, types)
    IN  [i \in 1..Len(items) |-> items[Len(items) + 1 - i]]

_collect_items(dir, since, types) == load_objects(dir, since, LOAD_LIMIT, types)

(***************************************************************************)
(* get_indicators (main.py 179-193) and get_collection_objects (205-219).  *)
(***************************************************************************)
\* limit or len(items): a limit of None or 0 is falsy.
DefaultPageSize(limit, items) ==
    IF limit = None \/ limit[1] = 0 THEN Len(items) ELSE limit[1]

get_indicators(dir, since, limit, page_size, next) ==
    LET items  == load_indicators(dir, since, LOAD_LIMIT)
        ps     == IF page_size = None THEN DefaultPageSize(limit, items) ELSE page_size[1]
        offset == decode_token(next)
        r      == _page(items, offset, ps)
    IN  [count |-> Len(r.slice), total |-> r.total, more |-> r.more,
         next |-> r.next_token, stixobjects |-> r.slice]

COLLECTION_ID == "indicators"

\* The HTTPException(404) of an unknown collection is the response with
\* status 404 and no page.
get_collection_objects(dir, collection_id, since, types, page_size, next) ==
    IF collection_id # COLLECTION_ID
    THEN [status |-> 404, objects |-> <<>>, total |-> 0, more |-> FALSE, next |-> None]
    ELSE LET items  == _collect_items(dir, since, types)
             offset == decode_token(next)
             r      == _page(items, offset, page_size)
         IN  [status |-> 200, objects |-> r.slice, total |-> r.total, more |-> r.more,
              next |-> r.next_token]

(***************************************************************************)
(* taxii_objects (main.py 246-262).  The ETag is a digest of the time, the *)
(* number of items, the type list and the total: it is modelled by the     *)
(* tuple of what is digested.                                              *)
(***************************************************************************)
TAXII_INDICATORS_ONLY == FALSE

taxii_objects(dir, t, collection_id, added_after, limit, next, types) ==
    IF collection_id # COLLECTION_ID
    THEN [status |-> 404, objects |-> <<>>, more |-> FALSE, next |-> None,
          etag |-> <<>>, last_modified |-> t]
    ELSE LET type_list == IF TAXII_INDICATORS_ONLY THEN Some({"indicator"}) ELSE types
             items     == _collect_items(dir, added_after, type_list)
             offset    == decode_token(next)
             r         == _page(items, offset, limit)
         IN  [status |-> 200, objects |-> r.slice, more |-> r.more, next |-> r.next_token,
              etag |-> <<t, Len(items), type_list, r.total>>, last_modified |-> t]

(***************************************************************************)
(* State shared by every specification.                                    *)
(***************************************************************************)
Workers == {1, 2}

IdleSweep == [pc |-> "idle", h |-> 0, current_time |-> 0, threshold |-> 0, seen |-> <<>>,
              todo |-> {}, cur |-> None, deleted_files |-> <<>>, resp |-> None]

IdlePager == [ep |-> "indicators", cid |-> COLLECTION_ID, since |-> None, types |-> None,
              limit |-> None, page_size |-> None, next |-> None, acc |-> <<>>,
              done |-> TRUE, reqs |-> 0, last |-> None]

IdleCall == [items |-> <<>>, offset |-> 0, page_size |-> 0, res |-> None]

StartTime == 12

FirstId == 3

UpperExtName == Pfx \o <<"9", ".", "J", "S", "O", "N">>

NoPrefixName == <<"n", "o", "t", "e", "s", ".", "j", "s", "o", "n">>

PrefixOnlyName == Pfx \o <<"8", ".", "t", "x", "t">>

ForeignNames == {UpperExtName, NoPrefixName, PrefixOnlyName}

\* A directory: files maps each name in FileSet to its mtime and content.
MkDir(snaps, foreign) ==
    [n \in DOMAIN snaps \cup DOMAIN foreign |->
        IF n \in DOMAIN snaps THEN snaps[n] ELSE foreign[n]]

(***************************************************************************)
(* Direct calls of _page.                                                  *)
(***************************************************************************)
ItemValues == {"a", "b"}

CallItems == UNION {[1..n -> ItemValues] : n \in 0..MaxLen}

InitPage ==
    /\ now = StartTime
    /\ files = <<>>
    /\ nextId = FirstId
    /\ genOnStart = TRUE
    /\ every = DEFAULT_EVERY
    /\ schedPc = "boot"
    /\ schedLog = ""
    /\ sweep = [w \in Workers |-> IdleSweep]
    /\ genResp = None
    /\ pg = IdlePager
    /\ call \in [items : CallItems, offset : (-2)..(MaxLen + 2),
                 page_size : (-(MaxLen + 1))..(MaxLen + 1), res : {None}]

PageCall ==
    /\ call.res = None
    /\ call' = [call EXCEPT !.res = Some(_page(call.items, call.offset, call.page_size))]
    /\ UNCHANGED <<now, files, nextId, genOnStart, every, schedPc, schedLog, sweep, genResp, pg>>

NextPage == PageCall

SpecPage == InitPage /\ [][NextPage]_vars

(***************************************************************************)
(* A client paginating over one of the list endpoints: it sends the same   *)
(* filters and page_size with every request and carries the returned next  *)
(* token, until a response says more = false.  The directory does not      *)
(* change under SpecList.                                                  *)
(***************************************************************************)
MaxPageSize == 4

\* Snapshots left by earlier runs of the service hold up to this many objects.
MaxOldCount == 2

MaxReqs == 6

Sinces == {None, Some(10)}

Limits == {None, Some(0), Some(2), Some(-1)}

PageSizes == {Some(k) : k \in (-1)..MaxPageSize}

ForeignFiles == [n \in ForeignNames |-> [mtime |-> 0, objs |-> <<>>]]

SnapshotChoices(id, t) ==
    {<<>>} \cup {[n \in {SnapshotName(id)} |-> [mtime |-> t, objs |-> b]] :
                    b \in generate_payload(id, t, 1, MaxOldCount)}

ListDirs ==
    {MkDir(MkDir(s1, s2), ForeignFiles) :
        s1 \in SnapshotChoices(1, 2), s2 \in SnapshotChoices(2, 10)}

InitList ==
    /\ now = StartTime
    /\ files \in ListDirs
    /\ nextId = FirstId
    /\ genOnStart = TRUE
    /\ every = DEFAULT_EVERY
    /\ schedPc = "boot"
    /\ schedLog = ""
    /\ sweep = [w \in Workers |-> IdleSweep]
    /\ genResp = None
    /\ pg = IdlePager
    /\ call = IdleCall

PagerStartIndicators ==
    /\ \E since \in Sinces, limit \in Limits, page_size \in {None} \cup PageSizes :
          pg' = [IdlePager EXCEPT !.ep = "indicators", !.since = since, !.limit = limit,
                                  !.page_size = page_size, !.done = FALSE]
    /\ UNCHANGED <<now, files, nextId, genOnStart, every, schedPc, schedLog, sweep, genResp, call>>

PagerStartCollection ==
    /\ \E cid \in {COLLECTION_ID, "other"}, since \in Sinces,
          types \in {None, Some({"malware"})}, page_size \in PageSizes \cup {Some(100)} :
          pg' = [IdlePager EXCEPT !.ep = "collection", !.cid = cid, !.since = since,
                                  !.types = types, !.page_size = page_size, !.done = FALSE]
    /\ UNCHANGED <<now, files, nextId, genOnStart, every, schedPc, schedLog, sweep, genResp, call>>

\* GET /api/v1/indicators
FetchIndicators ==
    /\ pg.ep = "indicators"
    /\ ~pg.done
    /\ pg.reqs < MaxReqs
    /\ LET r == get_indicators(files, pg.since, pg.limit, pg.page_size, pg.next)
       IN  pg' = [pg EXCEPT !.acc = @ \o r.stixobjects, !.next = r.next, !.done = ~r.more,
                            !.reqs = @ + 1, !.last = Some(r)]
    /\ UNCHANGED <<now, files, nextId, genOnStart, every, schedPc, schedLog, sweep, genResp, call>>

\* GET /api/v1/collections/{collection_id}/objects
FetchCollection ==
    /\ pg.ep = "collection"
    /\ ~pg.done
    /\ pg.reqs < MaxReqs
    /\ LET r == get_collection_objects(files, pg.cid, pg.since, pg.types,
                                       pg.page_size[1], pg.next)
       IN  pg' = [pg EXCEPT !.acc = @ \o r.objects, !.next = r.next, !.done = ~r.more,
                            !.reqs = @ + 1, !.last = Some(r)]
    /\ UNCHANGED <<now, files, nextId, genOnStart, every, schedPc, schedLog, sweep, genResp, call>>

NextList ==
    \/ PagerStartIndicators
    \/ PagerStartCollection
    \/ FetchIndicators
    \/ FetchCollection

SpecList == InitList /\ [][NextList]_vars

(***************************************************************************)
(* The running service.  The directory may hold files from earlier runs:   *)
(* snapshots 1 and 2 (written at hours 2 and 10), and two files that are   *)
(* not snapshots.                                                          *)
(***************************************************************************)
OldSnapshot(id, t) ==
    {<<>>, [n \in {SnapshotName(id)} |-> [mtime |-> t, objs |-> Bundle(id, t, <<"indicator">>)]]}

StartDirs ==
    {MkDir(MkDir(s1, s2), ForeignFiles) : s1 \in OldSnapshot(1, 2), s2 \in OldSnapshot(2, 10)}

Init ==
    /\ now = StartTime
    /\ files \in StartDirs
    /\ nextId = FirstId
    /\ genOnStart \in BOOLEAN
    /\ every = DEFAULT_EVERY
    /\ schedPc = "boot"
    /\ schedLog = ""
    /\ sweep = [w \in Workers |-> IdleSweep]
    /\ genResp = None
    /\ pg = IdlePager
    /\ call = IdleCall

\* Time passes.
Tick ==
    /\ now < MaxTime
    /\ now' = now + 1
    /\ UNCHANGED <<files, nextId, genOnStart, every, schedPc, schedLog, sweep, genResp, pg, call>>

\* generate_payload followed by write_payload succeeds: a new snapshot file,
\* named by the next sequence number, holds the payload.
GenerateAndWrite ==
    /\ nextId < FirstId + MaxGen
    /\ \E payload \in generate_payload(nextId, now, MIN_COUNT, MAX_COUNT) :
          files' = write_payload(files, nextId, now, payload)
    /\ nextId' = nextId + 1

\* generate_payload or write_payload raises: nothing is written.
GenerationErrors == {"generator error", "storage error"}

(***************************************************************************)
(* _start_generator (main.py 75-91): the start-up handler, then _loop.     *)
(* Requests are served once the start-up handler has returned.             *)
(***************************************************************************)
LoopPcs == {"sleep", "generate", "backoff"}

Serving == schedPc \in LoopPcs

\* GENERATE_ON_START is false: lines 78-79 are skipped.
StartupSkip ==
    /\ schedPc = "boot"
    /\ ~genOnStart
    /\ schedPc' = "create_task"
    /\ UNCHANGED <<now, files, nextId, genOnStart, every, schedLog, sweep, genResp, pg, call>>

\* Lines 78-79 succeed.
StartupGenerate ==
    /\ schedPc = "boot"
    /\ genOnStart
    /\ GenerateAndWrite
    /\ schedPc' = "create_task"
    /\ UNCHANGED <<now, genOnStart, every, schedLog, sweep, genResp, pg, call>>

\* Lines 78-79 raise: they are not inside a try, the exception leaves the
\* start-up handler and line 91 is never reached.
StartupFail ==
    /\ schedPc = "boot"
    /\ genOnStart
    /\ \E e \in GenerationErrors : TRUE
    /\ schedPc' = "startup_failed"
    /\ UNCHANGED <<now, files, nextId, genOnStart, every, schedLog, sweep, genResp, pg, call>>

\* Line 91: asyncio.create_task(_loop()); the task starts at its first sleep.
CreateTaskGenerateFirst ==
    /\ schedPc = "create_task"
    /\ schedPc' = "generate"
    /\ UNCHANGED <<now, files, nextId, genOnStart, every, schedLog, sweep, genResp, pg, call>>

CreateTask ==
    /\ schedPc = "create_task"
    /\ schedPc' = "sleep"
    /\ UNCHANGED <<now, files, nextId, genOnStart, every, schedLog, sweep, genResp, pg, call>>

\* Line 84: await asyncio.sleep(GENERATE_EVERY_SECONDS) returns.
LoopSleep ==
    /\ schedPc = "sleep"
    /\ schedPc' = "generate"
    /\ UNCHANGED <<now, files, nextId, genOnStart, every, schedLog, sweep, genResp, pg, call>>

\* Lines 85-86 succeed; the while loop goes back to the sleep.
LoopGenerateReaping ==
    /\ schedPc = "generate"
    /\ nextId < FirstId + MaxGen
    /\ \E payload \in generate_payload(nextId, now, MIN_COUNT, MAX_COUNT) :
          LET written == write_payload(files, nextId, now, payload)
          IN  files' = [n \in DOMAIN written \ {SnapshotName(1)} |-> written[n]]
    /\ nextId' = nextId + 1
    /\ schedPc' = "sleep"
    /\ UNCHANGED <<now, genOnStart, every, schedLog, sweep, genResp, pg, call>>

LoopGenerate ==
    /\ schedPc = "generate"
    /\ GenerateAndWrite
    /\ schedPc' = "sleep"
    /\ UNCHANGED <<now, genOnStart, every, schedLog, sweep, genResp, pg, call>>

\* Lines 85-86 raise e; lines 87-88 catch it and print it, line 89 starts
\* the backoff sleep.
LoopFailUncaught ==
    /\ schedPc = "generate"
    /\ \E e \in GenerationErrors : schedLog' = e
    /\ schedPc' = "dead"
    /\ UNCHANGED <<now, files, nextId, genOnStart, every, sweep, genResp, pg, call>>

LoopFail ==
    /\ schedPc = "generate"
    /\ \E e \in GenerationErrors : schedLog' = e
    /\ schedPc' = "backoff"
    /\ UNCHANGED <<now, files, nextId, genOnStart, every, sweep, genResp, pg, call>>

\* Line 89: await asyncio.sleep(10) returns; the while loop re-enters the
\* try at the interval sleep.
LoopBackoffRetry ==
    /\ schedPc = "backoff"
    /\ schedPc' = "generate"
    /\ UNCHANGED <<now, files, nextId, genOnStart, every, schedLog, sweep, genResp, pg, call>>

LoopBackoff ==
    /\ schedPc = "backoff"
    /\ schedPc' = "sleep"
    /\ UNCHANGED <<now, files, nextId, genOnStart, every, schedLog, sweep, genResp, pg, call>>

Scheduler ==
    \/ StartupSkip
    \/ StartupGenerate
    \/ StartupFail
    \/ CreateTask
    \/ LoopSleep
    \/ LoopGenerate
    \/ LoopFail
    \/ LoopBackoff

(***************************************************************************)
(* generate_ti_indicators (main.py 145-156).                               *)
(***************************************************************************)
ManualGenerate ==
    /\ Serving
    /\ GenerateAndWrite
    /\ genResp' = Some([status |-> 200, filename |-> SnapshotName(nextId),
                        indicators_count |-> Len(files'[SnapshotName(nextId)].objs)])
    /\ UNCHANGED <<now, genOnStart, every, schedPc, schedLog, sweep, pg, call>>

\* generate_payload or write_payload raises inside the handler: the request
\* is answered with status 500.
ManualGenerateFail ==
    /\ Serving
    /\ \E e \in GenerationErrors : genResp' = Some([status |-> 500, error |-> e])
    /\ UNCHANGED <<now, files, nextId, genOnStart, every, schedPc, schedLog, sweep, pg, call>>

(***************************************************************************)
(* Read requests while the service runs: one request of a client of        *)
(* get_indicators, with or without a cursor from the previous response.    *)
(***************************************************************************)
ReadStart ==
    /\ Serving
    /\ \E page_size \in {None, Some(2)} :
          pg' = [IdlePager EXCEPT !.page_size = page_size, !.done = FALSE]
    /\ UNCHANGED <<now, files, nextId, genOnStart, every, schedPc, schedLog, sweep, genResp, call>>

ReadFetch ==
    /\ Serving
    /\ FetchIndicators

\* One request to each of the other two list endpoints, with their default
\* page size of 100 and no filter.
DEFAULT_PAGE == 100

ReadStartCollection ==
    /\ Serving
    /\ pg' = [IdlePager EXCEPT !.ep = "collection", !.page_size = Some(DEFAULT_PAGE),
                               !.done = FALSE]
    /\ UNCHANGED <<now, files, nextId, genOnStart, every, schedPc, schedLog, sweep, genResp, call>>

ReadFetchCollection ==
    /\ Serving
    /\ FetchCollection

ReadStartTaxii ==
    /\ Serving
    /\ pg' = [IdlePager EXCEPT !.ep = "taxii", !.limit = Some(DEFAULT_PAGE), !.done = FALSE]
    /\ UNCHANGED <<now, files, nextId, genOnStart, every, schedPc, schedLog, sweep, genResp, call>>

\* GET /taxii2/root/collections/{collection_id}/objects
ReadFetchTaxii ==
    /\ Serving
    /\ pg.ep = "taxii"
    /\ ~pg.done
    /\ pg.reqs < MaxReqs
    /\ LET r == taxii_objects(files, now, pg.cid, pg.since, pg.limit[1], pg.next, pg.types)
       IN  pg' = [pg EXCEPT !.acc = @ \o r.objects, !.next = r.next, !.done = ~r.more,
                            !.reqs = @ + 1, !.last = Some(r)]
    /\ UNCHANGED <<now, files, nextId, genOnStart, every, schedPc, schedLog, sweep, genResp, call>>

(***************************************************************************)
(* delete_old_ti_files (main.py 158-177).  The handler is synchronous, so  *)
(* the server runs it on a worker thread and two calls can overlap.  No    *)
(* step of a call is inside a try: an OSError raised by os.path.getmtime   *)
(* or os.remove (the file is gone) ends the call with status 500.          *)
(***************************************************************************)
Hs == {DEFAULT_H, 10}

\* Line 165.
IsEligibleNoPrefix(filename) == endswith(lower(filename), JsonExt)

IsEligible(filename) == endswith(lower(filename), JsonExt) /\ startswith(filename, Pfx)

\* Lines 160-162: deleted_files = [], current_time, threshold.
SweepStartWith(w, h) ==
    /\ Serving
    /\ sweep[w].pc = "idle"
    /\ sweep' = [sweep EXCEPT ![w] =
                    [IdleSweep EXCEPT !.pc = "list", !.h = h, !.current_time = now,
                                      !.threshold = now - h]]
    /\ UNCHANGED <<now, files, nextId, genOnStart, every, schedPc, schedLog, genResp, pg, call>>

SweepStart(w) == \E h \in Hs : SweepStartWith(w, h)

\* Lines 163-165: os.walk lists the directory; the names that fail the test
\* of line 165 are passed over.  seen records the listing and each file's
\* mtime at that moment.
SweepList(w) ==
    /\ sweep[w].pc = "list"
    /\ sweep' = [sweep EXCEPT ![w].pc = "walk",
                              ![w].seen = [n \in DOMAIN files |-> files[n].mtime],
                              ![w].todo = {n \in DOMAIN files : IsEligible(n)}]
    /\ UNCHANGED <<now, files, nextId, genOnStart, every, schedPc, schedLog, genResp, pg, call>>

\* Lines 166-168 for the next listed file, in any order: getmtime raises
\* when the file no longer exists; a file that is not older is passed over.
SweepStatFreshThreshold(w) ==
    /\ sweep[w].pc = "walk"
    /\ sweep[w].cur = None
    /\ \E f \in sweep[w].todo :
          sweep' = [sweep EXCEPT ![w] =
                      IF f \notin DOMAIN files
                      THEN [@ EXCEPT !.pc = "idle", !.todo = {},
                                     !.resp = Some([status |-> 500, error |-> f])]
                      ELSE IF files[f].mtime < now - @.h
                      THEN [@ EXCEPT !.todo = @ \ {f}, !.cur = Some(f)]
                      ELSE [@ EXCEPT !.todo = @ \ {f}]]
    /\ UNCHANGED <<now, files, nextId, genOnStart, every, schedPc, schedLog, genResp, pg, call>>

SweepStat(w) ==
    /\ sweep[w].pc = "walk"
    /\ sweep[w].cur = None
    /\ \E f \in sweep[w].todo :
          sweep' = [sweep EXCEPT ![w] =
                      IF f \notin DOMAIN files
                      THEN [@ EXCEPT !.pc = "idle", !.todo = {},
                                     !.resp = Some([status |-> 500, error |-> f])]
                      ELSE IF files[f].mtime < @.threshold
                      THEN [@ EXCEPT !.todo = @ \ {f}, !.cur = Some(f)]
                      ELSE [@ EXCEPT !.todo = @ \ {f}]]
    /\ UNCHANGED <<now, files, nextId, genOnStart, every, schedPc, schedLog, genResp, pg, call>>

\* Lines 169-170: os.remove, then deleted_files.append; os.remove raises when
\* the file no longer exists.
SweepRemove(w) ==
    /\ sweep[w].pc = "walk"
    /\ sweep[w].cur # None
    /\ LET f == sweep[w].cur[1]
       IN  IF f \in DOMAIN files
           THEN /\ files' = [n \in DOMAIN files \ {f} |-> files[n]]
                /\ sweep' = [sweep EXCEPT ![w].cur = None,
                                          ![w].deleted_files = Append(@, f)]
           ELSE /\ files' = files
                /\ sweep' = [sweep EXCEPT ![w].pc = "idle", ![w].cur = None, ![w].todo = {},
                                          ![w].resp = Some([status |-> 500, error |-> f])]
    /\ UNCHANGED <<now, nextId, genOnStart, every, schedPc, schedLog, genResp, pg, call>>

\* Lines 171-177.
SweepReturn(w) ==
    /\ sweep[w].pc = "walk"
    /\ sweep[w].cur = None
    /\ sweep[w].todo = {}
    /\ sweep' = [sweep EXCEPT ![w].pc = "idle",
                              ![w].resp = Some([status |-> 200,
                                                deleted_files |-> sweep[w].deleted_files,
                                                total_deleted |-> Len(sweep[w].deleted_files),
                                                threshold_hours |-> sweep[w].h])]
    /\ UNCHANGED <<now, files, nextId, genOnStart, every, schedPc, schedLog, genResp, pg, call>>

Sweep ==
    \E w \in Workers :
        \/ SweepStart(w)
        \/ SweepList(w)
        \/ SweepStat(w)
        \/ SweepRemove(w)
        \/ SweepReturn(w)

\* Snapshots aged 10 h and 2 h at StartTime, and the files that are not snapshots.
ReapDir ==
    MkDir(MkDir([n \in {SnapshotName(1)} |-> [mtime |-> 2, objs |-> Bundle(1, 2, <<"indicator">>)]],
                [n \in {SnapshotName(2)} |-> [mtime |-> 10, objs |-> Bundle(2, 10, <<"indicator">>)]]),
          ForeignFiles)

\* The service is up (start-up without generation has ended, the loop task
\* sleeps) over a directory left by earlier runs.
InitReap ==
    /\ now = StartTime
    /\ files = ReapDir
    /\ nextId = FirstId
    /\ genOnStart = FALSE
    /\ every = DEFAULT_EVERY
    /\ schedPc = "sleep"
    /\ schedLog = ""
    /\ sweep = [w \in Workers |-> IdleSweep]
    /\ genResp = None
    /\ pg = IdlePager
    /\ call = IdleCall

\* A generation request that overlaps the sweeps.
ReapGenerate ==
    /\ nextId < FirstId + MaxReapGen
    /\ ManualGenerate

NextReap ==
    \/ ReapGenerate
    \/ Sweep

SpecReap == InitReap /\ [][NextReap]_vars

NextSched ==
    \/ Tick
    \/ Scheduler
    \/ ManualGenerate
    \/ ManualGenerateFail
    \/ ReadStart
    \/ ReadFetch

SpecSched == Init /\ [][NextSched]_vars

\* The event loop runs the start-up handler and every step of the task it
\* created: a sleep that was started returns, a cycle that was started ends.
FairSpecSched == SpecSched /\ WF_vars(Scheduler)

(***************************************************************************)
(* The whole service: the regeneration task and every request handler.     *)
(* SpecSched and SpecReap above are its restrictions to the regeneration   *)
(* task with the generation and read requests, and to the requests that    *)
(* write or delete files of a service that is up.  The claims are checked  *)
(* under the restrictions, whose state spaces are exhaustively searched.   *)
(***************************************************************************)
Next ==
    \/ Tick
    \/ Scheduler
    \/ ManualGenerate
    \/ ManualGenerateFail
    \/ ReadStart
    \/ ReadFetch
    \/ Sweep

Spec == Init /\ [][Next]_vars

(***************************************************************************)
(* The service with every operation that reads or writes the directory:    *)
(* the regeneration task, the generation request, one delete request at a  *)
(* time and one request to each list endpoint.                             *)
(***************************************************************************)
\* The process starts over a directory left by earlier runs; one more
\* snapshot can be written before the sequence numbers of the model end.
InitLife ==
    /\ now = StartTime
    /\ files = ReapDir
    /\ nextId = FirstId + MaxGen - 1
    /\ genOnStart \in BOOLEAN
    /\ every = DEFAULT_EVERY
    /\ schedPc = "boot"
    /\ schedLog = ""
    /\ sweep = [w \in Workers |-> IdleSweep]
    /\ genResp = None
    /\ pg = IdlePager
    /\ call = IdleCall

NextLife ==
    \/ Scheduler
    \/ ManualGenerate
    \/ ManualGenerateFail
    \/ ReadStart
    \/ ReadFetch
    \/ ReadStartCollection
    \/ ReadFetchCollection
    \/ ReadStartTaxii
    \/ ReadFetchTaxii
    \/ SweepStart(1)
    \/ SweepList(1)
    \/ SweepStat(1)
    \/ SweepRemove(1)
    \/ SweepReturn(1)

SpecLife == InitLife /\ [][NextLife]_vars

(***************************************************************************)
(* One delete request at a time, with h below, at and above zero, while    *)
(* time passes and the loop and generation requests write snapshots.       *)
(***************************************************************************)
RaceHs == {-1, 0, DEFAULT_H}

RaceSweepStart == \E h \in RaceHs : SweepStartWith(1, h)

NextRace ==
    \/ Tick
    \/ RaceSweepStart
    \/ SweepList(1)
    \/ SweepStat(1)
    \/ SweepRemove(1)
    \/ SweepReturn(1)
    \/ ManualGenerate
    \/ LoopSleep
    \/ LoopGenerate

SpecRace == InitReap /\ [][NextRace]_vars

(***************************************************************************)
(* A client paginating over one of the three list endpoints with a page    *)
(* size of at least 1 while the loop and generation requests write new     *)
(* snapshots between its requests.  Nothing is deleted.                    *)
(***************************************************************************)
MaxRunPage == 2

\* Two snapshots of two objects each, left by earlier runs.
PaginateDir ==
    MkDir([n \in {SnapshotName(1)} |->
              [mtime |-> 2, objs |-> Bundle(1, 2, <<"indicator", "malware">>)]],
          [n \in {SnapshotName(2)} |->
              [mtime |-> 10, objs |-> Bundle(2, 10, <<"indicator", "indicator">>)]])

InitPaginate ==
    /\ now = StartTime
    /\ files = PaginateDir
    /\ nextId = FirstId
    /\ genOnStart = FALSE
    /\ every = DEFAULT_EVERY
    /\ schedPc = "sleep"
    /\ schedLog = ""
    /\ sweep = [w \in Workers |-> IdleSweep]
    /\ genResp = None
    /\ pg = IdlePager
    /\ call = IdleCall

PaginateStart ==
    /\ pg.done
    /\ \E ep \in {"indicators", "collection", "taxii"}, k \in 1..MaxRunPage,
          types \in {None, Some({"indicator"})} :
          /\ (ep = "indicators") => (types = None)
          /\ pg' = [IdlePager EXCEPT !.ep = ep, !.types = types, !.done = FALSE,
                                     !.page_size = IF ep = "taxii" THEN None ELSE Some(k),
                                     !.limit = IF ep = "taxii" THEN Some(k) ELSE None]
    /\ UNCHANGED <<now, files, nextId, genOnStart, every, schedPc, schedLog, sweep, genResp, call>>

NextPaginate ==
    \/ PaginateStart
    \/ ReadFetch
    \/ ReadFetchCollection
    \/ ReadFetchTaxii
    \/ LoopSleep
    \/ LoopGenerate
    \/ ManualGenerate

SpecPaginate == InitPaginate /\ [][NextPaginate]_vars

(***************************************************************************)
(* The regeneration task under every interval the configuration accepts:   *)
(* GENERATE_EVERY_SECONDS is set to a decimal text, to a text that is not  *)
(* a number, or not set.  A text that int rejects ends the import, so the  *)
(* service has no state with it.                                           *)
(***************************************************************************)
MaxEvery == 12

EnvValues ==
    {None, Some(<<"a">>), Some(<<>>), Some(<<"+", "9">>)}
        \cup {Some(str(n)) : n \in ((-2)..MaxEvery) \cup {60, 3600}}

InitConf ==
    /\ now = StartTime
    /\ files = ReapDir
    /\ nextId = FirstId
    /\ genOnStart \in BOOLEAN
    /\ \E value \in EnvValues :
          /\ GENERATE_EVERY_SECONDS(value) # None
          /\ every = GENERATE_EVERY_SECONDS(value)[1]
    /\ schedPc = "boot"
    /\ schedLog = ""
    /\ sweep = [w \in Workers |-> IdleSweep]
    /\ genResp = None
    /\ pg = IdlePager
    /\ call = IdleCall

NextConf == Scheduler

SpecConf == InitConf /\ [][NextConf]_vars

(***************************************************************************)
(* Claims about the regeneration task, checked under SpecSched and         *)
(* FairSpecSched.                                                          *)
(***************************************************************************)
\* A step in which a periodic cycle ends otherwise than by a written snapshot.
CycleFails == schedPc = "generate" /\ schedPc' \notin {"generate", "sleep"}

\* C2: whenever a periodic cycle fails, the task logs the error and goes to
\* its backoff sleep, and the step changes neither the directory nor the
\* state of any read, delete or manual generation request; once started the
\* loop never leaves its sleep / generate / backoff positions; and after
\* every failed cycle a later generation attempt eventually happens.
C2_PeriodicFailureIsolated ==
    /\ [][CycleFails =>
            /\ schedPc' = "backoff"
            /\ schedLog' \in GenerationErrors
            /\ UNCHANGED <<files, nextId, sweep, genResp, pg>>]_vars
    /\ [][(schedPc \in LoopPcs) => (schedPc' \in LoopPcs)]_vars
    /\ [](schedPc = "backoff" => <>(schedPc = "generate"))

C2_Witness ==
    /\ schedPc = "backoff"
    /\ schedLog = "storage error"
    /\ genResp # None
    /\ genResp[1].status = 200
    /\ pg.reqs > 0

\* C3: a failed start-up cycle is isolated like any other: the start-up
\* handler never ends without the periodic loop having been started.
C3_StartupFailureIsolated ==
    schedPc \notin {"boot", "create_task"} => schedPc \in LoopPcs

(***************************************************************************)
(* Claims about delete_old_ti_files, checked under SpecReap.               *)
(***************************************************************************)
Elems(seq) == {seq[i] : i \in 1..Len(seq)}

Answered(w) == sweep[w].resp # None

\* The files worker w's call found in the directory that the code takes for
\* snapshots and that are strictly older than (now - h hours), now being the
\* time the call read.
OldSnapshots(w) ==
    {n \in DOMAIN sweep[w].seen :
        IsEligible(n) /\ sweep[w].seen[n] < sweep[w].current_time - sweep[w].h}

\* C4: a delete-old-snapshots request with threshold h deletes exactly the
\* snapshot files strictly older than (now - h hours), leaves the others in
\* place, and returns exactly the deleted names, their number and h.
C4_RetentionExact ==
    \A w \in Workers :
        Answered(w) =>
            LET r == sweep[w].resp[1]
            IN  /\ r.status = 200
                /\ Elems(sweep[w].deleted_files) = OldSnapshots(w)
                /\ Elems(r.deleted_files) = OldSnapshots(w)
                /\ Len(r.deleted_files) = Cardinality(OldSnapshots(w))
                /\ r.total_deleted = Cardinality(OldSnapshots(w))
                /\ r.threshold_hours = sweep[w].h
                /\ \A n \in OldSnapshots(w) : n \notin DOMAIN files

\* What the code does satisfy of C4: a call that is answered with status 200
\* has deleted and reported exactly the strictly older snapshot files.
C4_ExactWhenCompleted ==
    \A w \in Workers :
        (Answered(w) /\ sweep[w].resp[1].status = 200) =>
            LET r == sweep[w].resp[1]
            IN  /\ Elems(r.deleted_files) = OldSnapshots(w)
                /\ Len(r.deleted_files) = Cardinality(OldSnapshots(w))
                /\ r.total_deleted = Cardinality(OldSnapshots(w))
                /\ r.threshold_hours = sweep[w].h
                /\ \A n \in OldSnapshots(w) : n \notin DOMAIN files

\* The retention scenario: snapshots aged 10 h and 2 h, h = 6, only the
\* 10 h snapshot (and no younger one) is deleted and reported.
C4_Scenario ==
    /\ Answered(1)
    /\ sweep[1].h = 6
    /\ sweep[1].resp[1].status = 200
    /\ SnapshotName(1) \in Elems(sweep[1].resp[1].deleted_files)
    /\ SnapshotName(2) \in DOMAIN files
    /\ SnapshotName(1) \notin DOMAIN files

\* The naming convention as C5 words it: the name starts with 'indicators_'
\* and ends with '.json'.
MatchesConvention(name) == startswith(name, Pfx) /\ endswith(name, JsonExt)

\* The same with the extension compared without regard to case.
MatchesConventionAnyCase(name) == startswith(name, Pfx) /\ endswith(lower(name), JsonExt)

\* C5 as claimed: no step removes or changes a file whose name does not
\* start with 'indicators_' and end with '.json', and no such name is ever in
\* a deleted list.
C5_FrameCondition ==
    /\ \A n \in ForeignNames :
          ~MatchesConvention(n) => (n \in DOMAIN files /\ files[n] = ForeignFiles[n])
    /\ \A w \in Workers : \A n \in Elems(sweep[w].deleted_files) : MatchesConvention(n)

\* C5 as amended: the same for the files whose name does not start with
\* 'indicators_' or does not end with '.json' in any letter case.
C5_FrameConditionAnyCase ==
    /\ \A n \in ForeignNames :
          ~MatchesConventionAnyCase(n) => (n \in DOMAIN files /\ files[n] = ForeignFiles[n])
    /\ \A n \in DOMAIN ReapDir :
          (n \in DOMAIN files /\ ~MatchesConventionAnyCase(n)) => files[n] = ReapDir[n]
    /\ \A w \in Workers :
          /\ \A n \in Elems(sweep[w].deleted_files) : MatchesConventionAnyCase(n)
          /\ Answered(w) /\ sweep[w].resp[1].status = 200 =>
                \A n \in Elems(sweep[w].resp[1].deleted_files) : MatchesConventionAnyCase(n)

\* A sweep with threshold 6 has ended, deleted the old snapshot and the old
\* upper-case .JSON file, and the old files that do not match are in place.
C5_Witness ==
    /\ Answered(1)
    /\ sweep[1].resp[1].status = 200
    /\ Elems(sweep[1].resp[1].deleted_files) = {SnapshotName(1), UpperExtName}
    /\ NoPrefixName \in DOMAIN files
    /\ PrefixOnlyName \in DOMAIN files
    /\ files[NoPrefixName].mtime < sweep[1].threshold

\* C6: a failed delete does not abort the sweep: every call is answered with
\* its list of deleted files, and when it is answered every strictly older
\* snapshot it found is gone.
C6_BestEffortDeletion ==
    \A w \in Workers :
        Answered(w) =>
            /\ sweep[w].resp[1].status = 200
            /\ \A n \in OldSnapshots(w) : n \notin DOMAIN files

(***************************************************************************)
(* Claims about pagination runs, checked under SpecList.                   *)
(***************************************************************************)
\* The full filtered sequence the client's filters select.
PagerItems ==
    IF pg.ep = "indicators"
    THEN load_indicators(files, pg.since, LOAD_LIMIT)
    ELSE _collect_items(files, pg.since, pg.types)

PagerRuns == pg.reqs > 0 \/ ~pg.done

\* C1: over an unchanging filtered sequence, a run with page_size k >= 1
\* that starts at offset 0 and carries the returned next token terminates
\* (every page but the last brings at least one new object, so there are at
\* most max(1, total) requests), and the concatenation of the pages is the
\* full filtered sequence, in order, without duplicates or omissions.
C1_PagingExhaustive ==
    (PagerRuns /\ pg.page_size # None /\ pg.page_size[1] >= 1 /\ pg.cid = COLLECTION_ID) =>
        LET items == PagerItems
        IN  /\ Len(pg.acc) <= Len(items)
            /\ pg.acc = SubSeq(items, 1, Len(pg.acc))
            /\ (pg.reqs > 0 /\ pg.done) => pg.acc = items
            /\ ~pg.done => (decode_token(pg.next) = Len(pg.acc) /\ Len(pg.acc) >= pg.reqs)
            /\ pg.reqs <= Max(1, Len(items))

C1_Witness ==
    /\ pg.ep = "indicators"
    /\ pg.page_size = Some(2)
    /\ pg.reqs = 2
    /\ pg.done
    /\ Len(PagerItems) = 3
    /\ pg.acc = PagerItems

\* C10: when get_indicators is given no page_size, the page size is the
\* caller's limit whenever a limit was supplied (0 included) and the full
\* result length otherwise; stated of the first response of a run (offset 0).
C10_DefaultPageSize ==
    (pg.ep = "indicators" /\ pg.page_size = None /\ pg.reqs = 1) =>
        LET items == PagerItems
            size  == IF pg.limit # None THEN pg.limit[1] ELSE Len(items)
            want  == _page(items, 0, size)
        IN  /\ pg.last[1].stixobjects = want.slice
            /\ pg.last[1].more = want.more
            /\ pg.last[1].next = want.next_token

\* The part of C10 the code does satisfy: with neither page_size nor limit,
\* the first response holds the whole filtered result, more = false and no
\* next cursor.
C10_NeitherGiven ==
    (pg.ep = "indicators" /\ pg.page_size = None /\ pg.limit = None /\ pg.reqs = 1) =>
        /\ pg.last[1].stixobjects = PagerItems
        /\ pg.last[1].more = FALSE
        /\ pg.last[1].next = None

(***************************************************************************)
(* Claims about _page, checked under SpecPage.                             *)
(***************************************************************************)
Called == call.res # None

Res == call.res[1]

\* The elements of items at the 0-based positions start, ..., end - 1.
Range(items, start, end) ==
    [i \in 1..(IF end > start THEN end - start ELSE 0) |-> items[start + i]]

\* C7: for every sequence, every offset and every page_size <= 0, _page
\* returns an empty page.
C7_NonPositivePageSizeEmpty ==
    (Called /\ call.page_size <= 0) => Res.slice = <<>>

\* C8: for every sequence and every page_size >= 1, a call with
\* offset >= total returns an empty page, more = false and no next token;
\* with total = 0 this already holds of the first request (offset 0).
C8_OutOfRangeOffset ==
    (Called /\ call.page_size >= 1 /\ call.offset >= Len(call.items)) =>
        /\ Res.slice = <<>>
        /\ Res.more = FALSE
        /\ Res.next_token = None

C8_Witness ==
    /\ Called
    /\ call.page_size >= 1
    /\ Len(call.items) = 2
    /\ call.offset = 2
    /\ Res.slice = <<>>

C8_WitnessEmpty ==
    /\ Called
    /\ call.page_size >= 1
    /\ call.items = <<>>
    /\ call.offset = 0
    /\ Res.more = FALSE

\* C9: for every sequence, every offset and every page_size >= 1, with
\* start = max(offset, 0) and end = min(start + page_size, total), _page
\* returns the elements at positions start .. end - 1, reports total, sets
\* more exactly when end < total, and returns a next token exactly when more
\* is set, that token decoding to end.
C9_PageResult ==
    (Called /\ call.page_size >= 1) =>
        LET total == Len(call.items)
            start == IF call.offset < 0 THEN 0 ELSE call.offset
            end   == IF start + call.page_size < total THEN start + call.page_size ELSE total
        IN  /\ Res.slice = Range(call.items, start, end)
            /\ Res.total = total
            /\ Res.more = (end < total)
            /\ (Res.next_token # None) = Res.more
            /\ Res.more => decode_token(Res.next_token) = end

C9_Witness ==
    /\ Called
    /\ call.items = <<"a", "b", "a">>
    /\ call.page_size = 2
    /\ call.offset = 0
    /\ Res.slice = <<"a", "b">>
    /\ Res.more
    /\ decode_token(Res.next_token) = 2

C9_WitnessLast ==
    /\ Called
    /\ call.items = <<"a", "b", "a">>
    /\ call.page_size = 2
    /\ call.offset = 2
    /\ Res.slice = <<"a">>
    /\ ~Res.more
    /\ Res.next_token = None

C9_WitnessNegativeOffset ==
    /\ Called
    /\ call.offset < 0
    /\ call.page_size = 1
    /\ Len(call.items) = 2
    /\ Res.slice = <<call.items[1]>>

(***************************************************************************)
(* Claims about the life of the snapshot files, checked under SpecLife.    *)
(***************************************************************************)
Added   == DOMAIN files' \ DOMAIN files
Removed == DOMAIN files \ DOMAIN files'

\* The step is one of the three places where a generation is written:
\* lines 78-79 at start-up, lines 85-86 in the loop, lines 147-148 in the
\* request handler.
GenerationStep ==
    \/ schedPc = "boot" /\ genOnStart /\ schedPc' = "create_task" /\ genResp' = genResp
    \/ schedPc = "generate" /\ schedPc' = "sleep" /\ genResp' = genResp
    \/ /\ schedPc' = schedPc
       /\ genResp' # None
       /\ genResp'[1].status = 200
       /\ genResp'[1].filename = SnapshotName(nextId)

\* The step is line 169 of a delete request.
DeleteStep ==
    \E w \in Workers :
        /\ sweep[w].cur # None
        /\ Removed = {sweep[w].cur[1]}
        /\ sweep'[w].deleted_files = Append(sweep[w].deleted_files, sweep[w].cur[1])

C11_Step ==
    /\ \A n \in DOMAIN files \cap DOMAIN files' : files'[n] = files[n]
    /\ (Removed # {}) =>
          (DeleteStep /\ Added = {} /\ schedPc' = schedPc /\ pg' = pg /\ genResp' = genResp)
    /\ (Added # {}) =>
          (/\ GenerationStep
           /\ Added = {SnapshotName(nextId)}
           /\ nextId' = nextId + 1
           /\ Removed = {}
           /\ sweep' = sweep
           /\ pg' = pg)
    /\ (pg' # pg) => (files' = files)

\* C11: no step changes a file that exists before and after it; a step that
\* removes a file is the removal step of a delete request and is neither a
\* step of the regeneration task nor a read; a step that adds a file is a
\* generation (start-up, periodic or requested) adding exactly the next
\* snapshot; a step of one of the three list operations leaves the
\* directory as it is.
C11_SnapshotLifecycle == [][C11_Step]_vars

\* A delete request removed a snapshot, a generation added one and a list
\* request was answered on the resulting directory.
C11_Witness ==
    /\ \E w \in Workers : sweep[w].deleted_files # <<>>
    /\ SnapshotName(FirstId + MaxGen - 1) \in DOMAIN files
    /\ SnapshotName(1) \notin DOMAIN files
    /\ pg.last # None
    /\ pg.ep = "taxii"
    /\ Len(pg.acc) = 2

(***************************************************************************)
(* Claims about the order of the regeneration task's steps, checked under  *)
(* SpecSched.                                                              *)
(***************************************************************************)
\* A file is written by the regeneration task: the generation request is the
\* only other writer, and it answers with the name of the file it wrote.
SchedulerWrite == Added # {} /\ genResp' = genResp

C12_Step ==
    /\ (schedPc = "create_task") =>
          (/\ nextId = FirstId + (IF genOnStart THEN 1 ELSE 0)
           /\ (SnapshotName(FirstId) \in DOMAIN files) <=> genOnStart
           /\ SnapshotName(FirstId + 1) \notin DOMAIN files)
    /\ SchedulerWrite =>
          (\/ schedPc = "boot" /\ genOnStart /\ schedPc' = "create_task"
           \/ schedPc = "generate" /\ schedPc' = "sleep")
    /\ (schedPc' = "generate" /\ schedPc # "generate") => (schedPc = "sleep")
    /\ (schedPc = "generate" /\ schedPc' # "generate") => (schedPc' \in {"sleep", "backoff"})
    /\ (schedPc = "generate" /\ schedPc' = "generate") => (files' = files \/ genResp' # genResp)

\* C12: when the loop task is about to be created, the regeneration task has
\* written exactly one snapshot if generate-on-start is enabled and none if
\* it is disabled; the regeneration task writes only at start-up (when
\* enabled) or in the loop's generation step; the generation step is entered
\* only by the return of the interval sleep and is left only to the interval
\* sleep or to the backoff, so two generations of the loop are never back to
\* back.
C12_SchedulerOrdering == [][C12_Step]_vars

\* Generate-on-start is enabled, the start-up generation and one generation
\* of the loop have been written, and the loop sleeps again.
C12_Witness ==
    /\ genOnStart
    /\ schedPc = "sleep"
    /\ genResp = None
    /\ SnapshotName(FirstId) \in DOMAIN files
    /\ SnapshotName(FirstId + 1) \in DOMAIN files

\* The loop's generation step ends with an exception.
CycleFailsNow == schedPc = "generate" /\ schedPc' \notin {"generate", "sleep"}

C13_Step ==
    /\ CycleFailsNow => (schedPc' = "backoff" /\ files' = files /\ nextId' = nextId)
    /\ (schedPc = "backoff") => (schedPc' \in {"backoff", "sleep"} /\ ~SchedulerWrite)
    /\ (schedPc = "sleep") => (schedPc' \in {"sleep", "generate"} /\ ~SchedulerWrite)
    /\ (schedPc' = "generate") => (schedPc \in {"sleep", "generate"})

\* C13: a failed cycle writes nothing and goes to the backoff; the backoff
\* is left only to the interval sleep and the interval sleep only to the
\* generation step, and the regeneration task writes nothing during either;
\* the generation step is entered from nowhere else, so the next attempt
\* comes after the backoff followed by one interval sleep.
C13_RetryAfterFailure == [][C13_Step]_vars

\* A cycle failed earlier and, after the backoff and the interval sleep, the
\* loop is at its next generation attempt.
C13_Witness ==
    /\ schedLog # ""
    /\ schedPc = "generate"

(***************************************************************************)
(* Claim about the configured interval, checked under SpecConf.            *)
(***************************************************************************)
\* C14: whenever the loop waits the backoff after a failed cycle, the
\* backoff is strictly shorter than the configured interval.
C14_BackoffShorterThanInterval == (schedPc = "backoff") => (BACKOFF_SECONDS < every)

(***************************************************************************)
(* Claim about pagination while snapshots are written, checked under       *)
(* SpecPaginate.                                                           *)
(***************************************************************************)
\* The merged, filtered view that a request of the run p gets over dir.
RunView(dir, p) ==
    IF p.ep = "indicators"
    THEN load_indicators(dir, p.since, LOAD_LIMIT)
    ELSE _collect_items(dir, p.since,
                        IF p.ep = "taxii" /\ TAXII_INDICATORS_ONLY THEN Some({"indicator"})
                        ELSE p.types)

RunPageSize(p) == IF p.ep = "taxii" THEN p.limit[1] ELSE p.page_size[1]

IsPrefix(s, t) == Len(s) <= Len(t) /\ s = SubSeq(t, 1, Len(s))

NoRepeat(s) == \A i, j \in 1..Len(s) : (s[i] = s[j]) => (i = j)

C15_Step ==
    \E before \in {RunView(files, pg)}, after \in {RunView(files', pg)},
       view \in {RunView(files', pg')} :
        /\ IsPrefix(before, after)
        /\ NoRepeat(view)
        /\ Len(view) < LOAD_LIMIT
        /\ IsPrefix(pg'.acc, view)
        /\ (pg'.reqs = pg.reqs + 1) =>
              (/\ files' = files
               /\ IsPrefix(pg.acc, pg'.acc)
               /\ Len(pg'.acc) = Min(Len(pg.acc) + RunPageSize(pg), Len(before))
               /\ pg'.done <=> (pg'.acc = before))

\* C15: in a run with page size >= 1 during which snapshots are written but
\* none is deleted, a write only appends to the merged view (the view before
\* the write is a prefix of the view after it), the view has no object
\* twice, what the run has returned so far is always exactly the first
\* objects of the current view, each request returns the next page_size
\* objects of the view it reads, and the run ends exactly when it has
\* returned that whole view.  So every object of the view at the first
\* request is returned exactly once, in order, and none is returned again.
C15_PaginationUnderGeneration == [][C15_Step]_vars

\* After the first request of a run over the collection endpoint a snapshot
\* was written, and the second request has returned the objects that follow
\* the first page; the run goes on.
C15_Witness ==
    /\ pg.ep = "collection"
    /\ pg.types = None
    /\ pg.reqs = 2
    /\ ~pg.done
    /\ pg.page_size = Some(2)
    /\ Len(pg.acc) = 4
    /\ pg.last[1].total = 5
    /\ Len(RunView(files, pg)) = 6

(***************************************************************************)
(* Claim about a delete request racing with generations, checked under     *)
(* SpecRace.                                                               *)
(***************************************************************************)
\* Worker w's delete request has computed its threshold and has not answered.
SweepRuns(w) == sweep[w].pc \in {"list", "walk"}

C16_Step ==
    \A w \in Workers :
        (SweepRuns(w) /\ sweep[w].h >= 0) =>
            /\ sweep'[w].pc # "idle" => sweep'[w].threshold = sweep[w].threshold
            /\ sweep[w].threshold <= sweep[w].current_time
            /\ \A f \in Added : files'[f].mtime >= sweep[w].current_time
            /\ \A f \in Removed : files[f].mtime < sweep[w].threshold

\* C16: while a delete request with h >= 0 runs, its threshold stays the one
\* computed at its start, which is not after the time it read; every
\* snapshot written meanwhile has a modification time that is not before
\* that time; and every file removed meanwhile has a modification time
\* strictly before the threshold.  So the request never removes a snapshot
\* written after it computed its threshold.
C16_SweepSparesNewSnapshots == [][C16_Step]_vars

\* A delete request with h = 0 started, time passed, a snapshot was written,
\* and the request, which listed and examined the new snapshot, removed the
\* two old ones and left the new one in place.
C16_Witness ==
    /\ sweep[1].pc = "walk"
    /\ sweep[1].h = 0
    /\ sweep[1].todo = {}
    /\ now > sweep[1].current_time
    /\ SnapshotName(FirstId) \in DOMAIN sweep[1].seen
    /\ SnapshotName(FirstId) \in DOMAIN files
    /\ sweep[1].seen[SnapshotName(FirstId)] > sweep[1].current_time
    /\ Len(sweep[1].deleted_files) >= 2

====
